---------------------------- MODULE Spec2Model ----------------------------
(***************************************************************************)
(* A model of the Redactor class of redactpii-node (src/src/Redactor.ts):  *)
(* rule-set construction, the replace engine with its anonymization map,   *)
(* the detection-only probe, the object walker, and the dashboard hook     *)
(* with the requests it has under way.                                     *)
(*                                                                         *)
(* Texts are sequences of lexemes.  A lexeme is a JavaScript string; the   *)
(* string a text stands for is the concatenation of its lexemes (Join).    *)
(* Every regular expression of the source is modelled by the lexeme spans  *)
(* it matches in texts built over Words: MatchLength.                      *)
(***************************************************************************)
EXTENDS Naturals, Sequences, FiniteSets, TLC

(***************************************************************************)
(* Bounds of the model.                                                    *)
(***************************************************************************)
MaxWords == 2        \* words of a text handed to redact / hasPII
MaxRuleKeys == 2     \* keys of a supplied rules map
MaxInFlight == 1     \* audit dispatches of one instance under way at a time
MaxConcurrent == 2   \* the same, where the subject is dispatches side by side

(***************************************************************************)
(* JavaScript values that are not strings of the program.                  *)
(***************************************************************************)
Undefined == "<undefined>"
Null == "<null>"

(***************************************************************************)
(* Lexemes.                                                                *)
(***************************************************************************)
Space == " "
EmailLexemes == {"anne@example.com", "ANNE@EXAMPLE.COM", "bob@example.com"}
SsnLexeme == "123-45-6789"
Words == {"and", SsnLexeme} \cup EmailLexemes

Digits == <<"0", "1", "2", "3", "4", "5", "6", "7", "8", "9">>

\* String(n) of JavaScript for a natural number: its decimal digits.
RECURSIVE NumberToString(_)
NumberToString(n) ==
    IF n < 10 THEN Digits[n + 1]
    ELSE NumberToString(n \div 10) \o Digits[(n % 10) + 1]

RECURSIVE Join(_)
Join(lexemes) ==
    IF lexemes = <<>> THEN "" ELSE Head(lexemes) \o Join(Tail(lexemes))

\* The texts of at most n words, the words separated by one space.
RECURSIVE WordTexts(_)
WordTexts(n) ==
    IF n = 0 THEN {<<>>}
    ELSE LET shorter == WordTexts(n - 1)
         IN  shorter
             \cup {<<w>> : w \in Words}
             \cup {t \o <<Space, w>> : t \in shorter \ {<<>>}, w \in Words}

\* the example of the README (src/README.md 56):
\* 'Hi David Johnson, call 555-555-5555'
Greeting == "Hi"
PhoneLexeme == "555-555-5555"
ReadmeText ==
    <<Greeting, Space, "David", Space, "Johnson", ",", Space, "call", Space,
      PhoneLexeme>>

\* two runs of nine digits and an address: in aggressive mode the CREDIT_CARD
\* pattern takes the digits and the space in front of the address
CardThenEmail == <<SsnLexeme, Space, SsnLexeme, Space, "bob@example.com">>

Texts ==
    WordTexts(MaxWords) \cup {<<Space>>, <<Space, Space>>, ReadmeText, CardThenEmail}

(***************************************************************************)
(* Replacement labels and token prefixes (Redactor.ts 243-256, 288-303).   *)
(***************************************************************************)
PiiTypes ==
    {"CREDIT_CARD", "EMAIL", "PERSON_NAME", "PHONE_NUMBER",
     "US_SOCIAL_SECURITY_NUMBER", "DIGITS"}

\* a prefix that is the name of the detector
getTokenPrefixIsName(piiType) == IF piiType = "DIGITS" THEN "PII" ELSE piiType

\* _getTokenPrefix, Redactor.ts 288-303
getTokenPrefix(piiType) ==
    CASE piiType = "CREDIT_CARD" -> "CREDIT_CARD"
      [] piiType = "EMAIL" -> "EMAIL"
      [] piiType = "PERSON_NAME" -> "PERSON"
      [] piiType = "PHONE_NUMBER" -> "PHONE"
      [] piiType = "US_SOCIAL_SECURITY_NUMBER" -> "SSN"
      [] OTHER -> "PII"

typeLabel(piiType) ==
    CASE piiType = "CREDIT_CARD" -> "CREDIT_CARD_NUMBER"
      [] piiType = "EMAIL" -> "EMAIL_ADDRESS"
      [] piiType = "PERSON_NAME" -> "PERSON_NAME"
      [] piiType = "PHONE_NUMBER" -> "PHONE_NUMBER"
      [] piiType = "US_SOCIAL_SECURITY_NUMBER" -> "US_SOCIAL_SECURITY_NUMBER"
      [] OTHER -> "DIGITS"

\* `${tokenPrefix}_${counter}`
Token(tokenPrefix, counter) == tokenPrefix \o "_" \o NumberToString(counter)

Labels == {typeLabel(p) : p \in PiiTypes}
Prefixes == {getTokenPrefix(p) : p \in PiiTypes}
MaxCounter == 2 * MaxWords + 4
Tokens == {Token(p, n) : p \in Prefixes, n \in 1..MaxCounter}
GlobalReplacement == "[REDACTED]"

(***************************************************************************)
(* Character classes of the lexemes, as the regular expressions see them.  *)
(***************************************************************************)
\* the first / last character is a word character (\w)
StartsWithWordChar(l) == l \notin {Space, GlobalReplacement, ","}
EndsWithWordChar(l) == l \notin {Space, GlobalReplacement, ","}
\* every character is in [a-z0-9._-], case ignored
IdentLike(l) == l \notin {Space, GlobalReplacement, ","} \cup EmailLexemes
\* two or more characters, every one in [a-z], case ignored
Alphabetic(l) == l \in {Greeting, "David", "Johnson", "call", "and"}

\* String.prototype.toLowerCase on a lexeme
ToLowerCase(l) ==
    CASE l = "ANNE@EXAMPLE.COM" -> "anne@example.com"
      [] l = Greeting -> "hi"
      [] l = "David" -> "david"
      [] l = "Johnson" -> "johnson"
      [] l = GlobalReplacement -> "[redacted]"
      [] l = "CREDIT_CARD_NUMBER" -> "credit_card_number"
      [] l = "EMAIL_ADDRESS" -> "email_address"
      [] l = "PERSON_NAME" -> "person_name"
      [] l = "PHONE_NUMBER" -> "phone_number"
      [] l = "US_SOCIAL_SECURITY_NUMBER" -> "us_social_security_number"
      [] l = "DIGITS" -> "digits"
      [] l \in Tokens ->
            LET pn == CHOOSE pn \in Prefixes \X (1..MaxCounter) :
                          l = Token(pn[1], pn[2])
                lower == CASE pn[1] = "CREDIT_CARD" -> "credit_card"
                           [] pn[1] = "EMAIL" -> "email"
                           [] pn[1] = "PERSON" -> "person"
                           [] pn[1] = "PHONE" -> "phone"
                           [] pn[1] = "SSN" -> "ssn"
                           [] OTHER -> "pii"
            IN  Token(lower, pn[2])
      [] OTHER -> l

LowerAll(lexemes) == [k \in 1..Len(lexemes) |-> ToLowerCase(lexemes[k])]

(***************************************************************************)
(* The patterns.  A pattern is named by its table and key; the two custom  *)
(* patterns are caller-supplied: /\band\b/g and /\b\d{3}-\d{2}-\d{4}\b/g.   *)
(***************************************************************************)
BuiltinKeys == <<"CREDIT_CARD", "EMAIL", "NAME", "PHONE", "SSN">>
BuiltinKeySet == {BuiltinKeys[k] : k \in 1..Len(BuiltinKeys)}
CustomWord == "custom./\\band\\b/g"
CustomSsn == "custom./\\b\\d{3}-\\d{2}-\\d{4}\\b/g"

\* \b holds in front of lexeme i
BoundaryBefore(t, i) == i = 1 \/ ~EndsWithWordChar(t[i - 1])

\* EMAIL, both tables: \b[a-z0-9][a-z0-9._-]*@...  The local part takes every
\* lexeme in front of the address that is joined to it without a space.
RECURSIVE EmailEnd(_, _)
EmailEnd(t, j) ==
    IF j > Len(t) THEN 0
    ELSE IF t[j] \in EmailLexemes THEN j
    ELSE IF IdentLike(t[j]) THEN EmailEnd(t, j + 1)
    ELSE 0

EmailLength(t, i) ==
    IF ~BoundaryBefore(t, i) THEN 0
    ELSE LET j == EmailEnd(t, i) IN IF j = 0 THEN 0 ELSE j - i + 1

\* aggressive CREDIT_CARD: \b(?:\d[ -]?){13,19}\b.  Two 9-digit lexemes
\* and the space between them are 18 digits; the last [ -]? takes the next
\* space when a word character follows it.
AggressiveCardLength(t, i) ==
    IF /\ BoundaryBefore(t, i)
       /\ i + 2 <= Len(t)
       /\ t[i] = SsnLexeme /\ t[i + 1] = Space /\ t[i + 2] = SsnLexeme
    THEN IF /\ i + 4 <= Len(t)
            /\ t[i + 3] = Space
            /\ StartsWithWordChar(t[i + 4])
         THEN 4 ELSE 3
    ELSE 0

\* NAME: (?:^|...)(?:dear|hi|...)\s+([A-Z][a-z]+(?:\s+[A-Z][a-z]+)+) with the
\* flags g and i.  No text has a greeting after a full stop or a comma, so
\* the match starts at the greeting at the start of the text; it takes the
\* greeting, and with the i flag every alphabetic word that follows counts
\* as a name.  NameWords: the lexemes of the words and of the spaces in
\* front of them, from lexeme j on.
RECURSIVE NameWords(_, _)
NameWords(t, j) ==
    IF j + 1 <= Len(t) /\ t[j] = Space /\ Alphabetic(t[j + 1])
    THEN 2 + NameWords(t, j + 2)
    ELSE 0

\* least: the number of name words the table asks for (2 normal, 1 aggressive)
NameLength(t, i, least) ==
    IF i = 1 /\ t[i] = Greeting /\ NameWords(t, i + 1) >= 2 * least
    THEN 1 + NameWords(t, i + 1)
    ELSE 0

\* PHONE, both tables: \b(?:\+?1[-.\s]?)?(?:\(?\d{3}\)?[-.\s]?)?\d{3}[-.\s]?\d{4}\b
PhoneLength(t, i) ==
    IF /\ t[i] = PhoneLexeme
       /\ BoundaryBefore(t, i)
       /\ (i = Len(t) \/ ~StartsWithWordChar(t[i + 1]))
    THEN 1 ELSE 0

\* The number of lexemes of t, from lexeme i on, that the pattern matches
\* at i; 0 when it does not match there.
MatchLength(pattern, t, i) ==
    CASE pattern \in {"normal.EMAIL", "aggressive.EMAIL"} -> EmailLength(t, i)
      [] pattern \in {"normal.SSN", "aggressive.SSN", CustomSsn} ->
            IF t[i] = SsnLexeme /\ BoundaryBefore(t, i) THEN 1 ELSE 0
      [] pattern = "aggressive.CREDIT_CARD" -> AggressiveCardLength(t, i)
      [] pattern = CustomWord ->
            IF t[i] = "and" /\ BoundaryBefore(t, i) THEN 1 ELSE 0
      [] pattern = "normal.NAME" -> NameLength(t, i, 2)
      [] pattern = "aggressive.NAME" -> NameLength(t, i, 1)
      [] pattern \in {"normal.PHONE", "aggressive.PHONE"} -> PhoneLength(t, i)
      \* normal CREDIT_CARD: no text holds a run of 14 to 16 digits
      [] OTHER -> 0

(***************************************************************************)
(* The state of one Redactor instance and of its caller.                   *)
(***************************************************************************)
VARIABLES
    options,                \* the options the constructor got: rules, customRules
    apiKey,                 \* this.apiKey
    apiUrl,                 \* this.apiUrl
    failSilent,             \* this.failSilent
    hookTimeout,            \* this.hookTimeout
    globalReplaceWith,      \* this.globalReplaceWith
    anonymize,              \* this.anonymize
    aggressive,             \* this.aggressive
    activeRules,            \* this.activeRules
    anonymizationMap,       \* this.anonymizationMap
    anonymizationCounters,  \* this.anonymizationCounters
    lastIndex,              \* lastIndex of the RegExp objects in this.activeRules
    call,                   \* the call that returned last, until its caller drops it
    dispatches,             \* the _phoneHome calls under way: fetch and timer of each
    unhandledRejections     \* the errors of promises that rejected with no handler

config == <<options, apiKey, apiUrl, failSilent, hookTimeout, globalReplaceWith,
            anonymize, aggressive, activeRules>>
transport == <<dispatches, unhandledRejections>>
vars == <<options, apiKey, apiUrl, failSilent, hookTimeout, globalReplaceWith,
          anonymize, aggressive, activeRules,
          anonymizationMap, anonymizationCounters, lastIndex, call, dispatches,
          unhandledRejections>>

(***************************************************************************)
(* Maps (JavaScript Map): functions on the set of their keys.              *)
(***************************************************************************)
EmptyMap == [k \in {} |-> ""]
MapHas(m, k) == k \in DOMAIN m
MapSet(m, k, v) == [x \in DOMAIN m \cup {k} |-> IF x = k THEN v ELSE m[x]]

(***************************************************************************)
(* buildRuleSet (Redactor.ts 51-130).  A rules map is the sequence of its  *)
(* entries in Object.entries order.                                        *)
(***************************************************************************)
JsTrue == "true"
JsFalse == "false"
JsOne == "1"

\* names every plain object inherits from Object.prototype
InheritedKeys == {"constructor", "toString"}
\* the name property of the inherited function
InheritedName(key) == IF key = "constructor" THEN "Object" ELSE key

defaultRules ==
    [k \in 1..Len(BuiltinKeys) |-> [key |-> BuiltinKeys[k], enabled |-> JsTrue]]

normalPatterns(key) ==
    CASE key = "CREDIT_CARD" -> [pattern |-> "normal.CREDIT_CARD", name |-> "CREDIT_CARD"]
      [] key = "EMAIL" -> [pattern |-> "normal.EMAIL", name |-> "EMAIL"]
      [] key = "NAME" -> [pattern |-> "normal.NAME", name |-> "PERSON_NAME"]
      [] key = "PHONE" -> [pattern |-> "normal.PHONE", name |-> "PHONE_NUMBER"]
      [] key = "SSN" -> [pattern |-> "normal.SSN", name |-> "US_SOCIAL_SECURITY_NUMBER"]

aggressivePatterns(key) ==
    CASE key = "CREDIT_CARD" -> [pattern |-> "aggressive.CREDIT_CARD", name |-> "CREDIT_CARD"]
      [] key = "EMAIL" -> [pattern |-> "aggressive.EMAIL", name |-> "EMAIL"]
      [] key = "NAME" -> [pattern |-> "aggressive.NAME", name |-> "PERSON_NAME"]
      [] key = "PHONE" -> [pattern |-> "aggressive.PHONE", name |-> "PHONE_NUMBER"]
      [] key = "SSN" -> [pattern |-> "aggressive.SSN", name |-> "US_SOCIAL_SECURITY_NUMBER"]

\* rulePatterns[ruleName]: an own entry of the chosen table, else what the
\* object inherits under that name (its pattern property is undefined),
\* else undefined.
rulePatterns(aggr, ruleName) ==
    IF ruleName \in BuiltinKeySet
    THEN IF aggr THEN aggressivePatterns(ruleName) ELSE normalPatterns(ruleName)
    ELSE IF ruleName \in InheritedKeys
    THEN [pattern |-> Undefined, name |-> InheritedName(ruleName)]
    ELSE [pattern |-> Undefined, name |-> Undefined]

IsUndefined(entry) == entry.pattern = Undefined /\ entry.name = Undefined

\* Redactor.ts 118-122
RECURSIVE builtinRules(_, _)
builtinRules(aggr, rules) ==
    IF rules = <<>> THEN <<>>
    ELSE LET ruleName == Head(rules).key
             enabled == Head(rules).enabled
             rest == builtinRules(aggr, Tail(rules))
         IN  IF enabled = JsTrue /\ ~IsUndefined(rulePatterns(aggr, ruleName))
             THEN <<rulePatterns(aggr, ruleName)>> \o rest
             ELSE rest

\* Redactor.ts 125-127
customRuleSet(customRules) ==
    [k \in 1..Len(customRules) |-> [pattern |-> customRules[k], name |-> "DIGITS"]]

buildRuleSet(aggr, rules, customRules) ==
    builtinRules(aggr, rules) \o customRuleSet(customRules)

(***************************************************************************)
(* _redactString (Redactor.ts 198-275).  The state of a running call: the  *)
(* text so far, the events, the two maps, the _phoneHome calls made, and   *)
(* the trace of what the call did.                                         *)
(***************************************************************************)
\* trace entries: the maps were cleared; a string leaf of redactObject was
\* entered; the replacer was called with the span `match`, which starts at
\* lexeme `at` of the text the call was given, and returned `replacement`
ClearEntry ==
    [kind |-> "clear", piiType |-> "", match |-> <<>>, at |-> 0, replacement |-> ""]
LeafEntry(text) ==
    [kind |-> "leaf", piiType |-> "", match |-> text, at |-> 0, replacement |-> ""]
MatchEntry(piiType, m, at, replacement) ==
    [kind |-> "match", piiType |-> piiType, match |-> m, at |-> at,
     replacement |-> replacement]
\* fetch was called
FetchEntry ==
    [kind |-> "fetch", piiType |-> "", match |-> <<>>, at |-> 0, replacement |-> ""]

RedactionEvent(piiType) == [pii_type |-> piiType, action |-> "REDACTED"]

\* a key that keeps the case of the matched text
anonymizationKeyCaseSensitive(piiType, m) == piiType \o ":" \o Join(m)

\* Redactor.ts 218-219; m is the matched span
anonymizationKey(piiType, m) ==
    LET normalizedMatch == Join(LowerAll(m))
    IN  piiType \o ":" \o normalizedMatch

\* one counter shared by all categories: the highest number handed out, plus 1
sharedCounter(counters, piiType) ==
    IF DOMAIN counters = {} THEN 1
    ELSE (CHOOSE n \in {counters[c] : c \in DOMAIN counters} :
             \A c \in DOMAIN counters : counters[c] <= n) + 1

\* Redactor.ts 226
nextCounter(counters, piiType) ==
    (IF MapHas(counters, piiType) THEN counters[piiType] ELSE 0) + 1

\* a replacer that lets globalReplaceWith override the anonymization token
chooseReplacementOverrideFirst(piiType, m, st) ==
    LET key == anonymizationKey(piiType, m)
    IN  IF globalReplaceWith # Undefined THEN globalReplaceWith
        ELSE IF anonymize
        THEN IF MapHas(st.map, key) THEN st.map[key]
             ELSE Token(getTokenPrefix(piiType), nextCounter(st.counters, piiType))
        ELSE typeLabel(piiType)

\* what the replacer returns, Redactor.ts 217-256
chooseReplacement(piiType, m, st) ==
    LET key == anonymizationKey(piiType, m)
    IN  IF anonymize
        THEN IF MapHas(st.map, key) THEN st.map[key]
             ELSE Token(getTokenPrefix(piiType), nextCounter(st.counters, piiType))
        ELSE IF globalReplaceWith # Undefined THEN globalReplaceWith
        ELSE typeLabel(piiType)

\* a replacer that puts the matched text into the event
ReplacerLeaking(name, m, at, st) ==
    LET piiType == name
        key == anonymizationKey(piiType, m)
        isNew == anonymize /\ ~MapHas(st.map, key)
        counter == nextCounter(st.counters, piiType)
        replacement == chooseReplacement(piiType, m, st)
    IN  [st EXCEPT
            !.events = Append(@, RedactionEvent(piiType \o ":" \o Join(m))),
            !.counters = IF isNew THEN MapSet(@, piiType, counter) ELSE @,
            !.map = IF isNew THEN MapSet(@, key, replacement) ELSE @,
            !.text = Append(@, replacement),
            !.origin = Append(@, at),
            !.trace = Append(@, MatchEntry(piiType, m, at, replacement))]

\* a replacer that records an event only when it makes a new token
ReplacerEventPerValue(name, m, at, st) ==
    LET piiType == name
        key == anonymizationKey(piiType, m)
        isNew == anonymize /\ ~MapHas(st.map, key)
        counter == nextCounter(st.counters, piiType)
        replacement == chooseReplacement(piiType, m, st)
    IN  [st EXCEPT
            !.events = IF anonymize /\ ~isNew THEN @
                       ELSE Append(@, RedactionEvent(piiType)),
            !.counters = IF isNew THEN MapSet(@, piiType, counter) ELSE @,
            !.map = IF isNew THEN MapSet(@, key, replacement) ELSE @,
            !.text = Append(@, replacement),
            !.origin = Append(@, at),
            !.trace = Append(@, MatchEntry(piiType, m, at, replacement))]

\* the replacer callback, Redactor.ts 212-257; st.origin[k] is the place in the
\* call's text that lexeme k of st.text comes from
Replacer(name, m, at, st) ==
    LET piiType == name
        key == anonymizationKey(piiType, m)
        isNew == anonymize /\ ~MapHas(st.map, key)
        counter == nextCounter(st.counters, piiType)
        replacement == chooseReplacement(piiType, m, st)
    IN  [st EXCEPT
            !.events = Append(@, RedactionEvent(piiType)),
            !.counters = IF isNew THEN MapSet(@, piiType, counter) ELSE @,
            !.map = IF isNew THEN MapSet(@, key, replacement) ELSE @,
            !.text = Append(@, replacement),
            !.origin = Append(@, at),
            !.trace = Append(@, MatchEntry(piiType, m, at, replacement))]

\* String.prototype.replace with a global pattern: the matches of src from
\* lexeme i on, left to right, none overlapping; st.text is the output.
RECURSIVE ReplaceFrom(_, _, _, _)
ReplaceFrom(rule, src, i, st) ==
    IF i > Len(src.text) THEN st
    ELSE LET n == MatchLength(rule.pattern, src.text, i)
         IN  IF n = 0
             THEN ReplaceFrom(rule, src, i + 1,
                              [st EXCEPT !.text = Append(@, src.text[i]),
                                         !.origin = Append(@, src.origin[i])])
             ELSE ReplaceFrom(rule, src, i + n,
                              Replacer(rule.name, SubSeq(src.text, i, i + n - 1),
                                       src.origin[i], st))

\* one turn of the loop of Redactor.ts 209-258; _clonePattern reads
\* pattern.source and throws a TypeError when the pattern is undefined
ApplyRule(rule, st) ==
    IF rule.pattern = Undefined THEN [st EXCEPT !.threw = TRUE]
    ELSE ReplaceFrom(rule, [text |-> st.text, origin |-> st.origin], 1,
                     [st EXCEPT !.text = <<>>, !.origin = <<>>])

RECURSIVE ApplyRules(_, _)
ApplyRules(rules, st) ==
    IF rules = <<>> \/ st.threw THEN st
    ELSE ApplyRules(Tail(rules), ApplyRule(Head(rules), st))

(***************************************************************************)
(* _phoneHome (Redactor.ts 308-343), up to its await: an async function   *)
(* runs in the caller's turn until it first awaits, so the timer is set    *)
(* and fetch is called before _redactString goes on.  st.fetchThrows: the  *)
(* platform's fetch throws when called (it is missing, or a stub throws);  *)
(* the try block catches that, and the promise settles in a later turn.    *)
(***************************************************************************)
\* Redactor.ts 324-328: JSON.stringify({ sdk_version, sdk_language, events })
Payload(events) ==
    [sdk_version |-> "1.0.0", sdk_language |-> "node", events |-> events]

\* Redactor.ts 316-330: the arguments of fetch and of setTimeout, and what
\* became of the call of fetch
Request(events, st) ==
    [url |-> apiUrl, method |-> "POST", contentType |-> "application/json",
     authorization |-> "Bearer " \o apiKey, body |-> Payload(events),
     timeout |-> hookTimeout,
     fetch |-> IF st.fetchThrows THEN "threw" ELSE "pending"]

\* a _phoneHome that leaves the request to a later turn
phoneHomeDeferred(events, st) == st

\* a _phoneHome that is no async function: an error that its catch block
\* rethrows reaches the caller of redact
phoneHomeNotAsync(events, st) ==
    IF apiKey = Null \/ apiKey = "" \/ apiUrl = "" THEN st
    ELSE IF st.fetchThrows /\ failSilent = FALSE
    THEN [st EXCEPT !.threw = TRUE, !.trace = Append(@, FetchEntry)]
    ELSE [st EXCEPT !.requests = Append(@, Request(events, st)),
                    !.trace = Append(@, FetchEntry)]

\* a _phoneHome that sends the request whatever the endpoint is
phoneHomeAnyUrl(events, st) ==
    [st EXCEPT !.requests = Append(@, Request(events, st)),
               !.trace = Append(@, FetchEntry)]

phoneHome(events, st) ==
    IF apiKey = Null \/ apiKey = "" \/ apiUrl = "" THEN st
    ELSE [st EXCEPT !.requests = Append(@, Request(events, st)),
                    !.trace = Append(@, FetchEntry)]

\* a dispatch block that does not look at resetState
dispatchEveryCall(resetState, done) ==
    LET hasValidApiKey == apiKey # Null /\ apiKey # ""
    IN  IF done.threw THEN done
        ELSE IF hasValidApiKey /\ Len(done.events) > 0
        THEN phoneHome(done.events, [done EXCEPT !.phoneHome = Append(@, done.events)])
        ELSE done

\* Redactor.ts 260-272: the events go to _phoneHome for a top-level call
\* with an api key; done is the state the loop over the rules ended in
dispatch(resetState, done) ==
    LET hasValidApiKey == apiKey # Null /\ apiKey # ""
    IN  IF done.threw THEN done
        ELSE IF resetState /\ hasValidApiKey /\ Len(done.events) > 0
        THEN phoneHome(done.events, [done EXCEPT !.phoneHome = Append(@, done.events)])
        ELSE done

\* a reset that clears the map and keeps the counters
redactStringKeepsCounters(text, resetState, st) ==
    LET reset == resetState /\ anonymize
        start == [st EXCEPT
                     !.text = text,
                     !.origin = [k \in 1..Len(text) |-> k],
                     !.events = <<>>,
                     !.map = IF reset THEN EmptyMap ELSE @,
                     !.trace = IF reset THEN Append(@, ClearEntry) ELSE @]
    IN  dispatch(resetState, ApplyRules(activeRules, start))

redactString(text, resetState, st) ==
    LET reset == resetState /\ anonymize
        start == [st EXCEPT
                     !.text = text,
                     !.origin = [k \in 1..Len(text) |-> k],
                     !.events = <<>>,
                     !.map = IF reset THEN EmptyMap ELSE @,
                     !.counters = IF reset THEN EmptyMap ELSE @,
                     !.trace = IF reset THEN Append(@, ClearEntry) ELSE @]
    IN  dispatch(resetState, ApplyRules(activeRules, start))

\* a redact that keeps the anonymization state of earlier calls
redactNoReset(text, st) == redactString(text, FALSE, st)

\* redact (Redactor.ts 281-283)
redact(text, st) == redactString(text, TRUE, st)

\* the state a call starts in
Entering ==
    [text |-> <<>>, origin |-> <<>>, events |-> <<>>, map |-> anonymizationMap,
     counters |-> anonymizationCounters, trace |-> <<>>, phoneHome |-> <<>>,
     threw |-> FALSE, heap |-> <<>>, requests |-> <<>>, fetchThrows |-> FALSE]

(***************************************************************************)
(* hasPII (Redactor.ts 143-153)                                            *)
(***************************************************************************)
Test(pattern, text) == \E i \in 1..Len(text) : MatchLength(pattern, text, i) > 0

\* A RegExp object in use: its pattern, its lastIndex (in lexemes), and
\* whether it is the object that this.activeRules holds.
\* using the stored object itself
patternItself(pattern, index) ==
    [pattern |-> pattern, lastIndex |-> index, shared |-> TRUE]

\* _clonePattern (Redactor.ts 135-137): new RegExp(source, flags) starts
\* with lastIndex 0, whatever the lastIndex of the pattern it copies
clonePattern(pattern, index) ==
    [pattern |-> pattern, lastIndex |-> 0, shared |-> FALSE]

\* the places from lexeme `from` + 1 on where the pattern matches
MatchesFrom(pattern, text, from) ==
    {i \in (from + 1)..Len(text) : MatchLength(pattern, text, i) > 0}
FirstOf(places) == CHOOSE i \in places : \A j \in places : i <= j
EndOfMatch(pattern, text, i) == i + MatchLength(pattern, text, i) - 1

\* RegExp.prototype.test with the g flag (Redactor.ts 147): the search
\* starts at lastIndex; a match leaves lastIndex at its end, a failure at 0
RegExpTest(regexp, text) ==
    IF MatchesFrom(regexp.pattern, text, regexp.lastIndex) = {}
    THEN [found |-> FALSE, lastIndex |-> 0]
    ELSE [found |-> TRUE,
          lastIndex |-> EndOfMatch(regexp.pattern, text,
                            FirstOf(MatchesFrom(regexp.pattern, text, regexp.lastIndex)))]

\* the loop of hasPII from rule k on; indexes are the lastIndex values of
\* the stored patterns
RECURSIVE hasPIIFrom(_, _, _, _)
RECURSIVE Tested(_, _, _, _, _, _)
hasPIIFrom(rules, text, k, indexes) ==
    IF k > Len(rules)
    THEN [found |-> FALSE, threw |-> FALSE, lastIndex |-> indexes]
    ELSE IF rules[k].pattern = Undefined
    THEN [found |-> FALSE, threw |-> TRUE, lastIndex |-> indexes]
    ELSE Tested(rules, text, k, indexes,
                clonePattern(rules[k].pattern, indexes[k]).shared,
                RegExpTest(clonePattern(rules[k].pattern, indexes[k]), text))

\* Redactor.ts 147-149: test has returned t
Tested(rules, text, k, indexes, shared, t) ==
    IF t.found
    THEN [found |-> TRUE, threw |-> FALSE,
          lastIndex |-> IF shared THEN [indexes EXCEPT ![k] = t.lastIndex] ELSE indexes]
    ELSE hasPIIFrom(rules, text, k + 1,
                    IF shared THEN [indexes EXCEPT ![k] = t.lastIndex] ELSE indexes)

\* a probe that tests the last detector only
hasPIILastRuleOnly(rules, text, indexes) ==
    hasPIIFrom(rules, text, IF rules = <<>> THEN 1 ELSE Len(rules), indexes)

hasPII(rules, text, indexes) == hasPIIFrom(rules, text, 1, indexes)

(***************************************************************************)
(* JavaScript values and the objects of the caller.  A heap is a sequence  *)
(* of objects, an address an index into it; a value is a scalar or the     *)
(* address of an object or array.  An array's property keys are its        *)
(* indices.                                                                *)
(***************************************************************************)
StringVal(text) == [t |-> "string", s |-> text, a |-> 0]
NumberVal(n) == [t |-> "number", s |-> <<>>, a |-> n]
NullVal == [t |-> "null", s |-> <<>>, a |-> 0]
UndefinedVal == [t |-> "undefined", s |-> <<>>, a |-> 0]
Ref(a) == [t |-> "ref", s |-> <<>>, a |-> a]
Prop(key, val) == [key |-> key, val |-> val]
Object(props) == [array |-> FALSE, props |-> props]
Array(elements) ==
    [array |-> TRUE,
     props |-> [k \in 1..Len(elements) |-> Prop(NumberToString(k - 1), elements[k])]]

(***************************************************************************)
(* JSON.parse(JSON.stringify(obj)) (Redactor.ts 160): a copy in fresh      *)
(* objects; a property whose value is undefined is left out of an object   *)
(* and becomes null in an array.                                           *)
(***************************************************************************)
IsDefined(p) == p.val.t # "undefined"
UndefinedToNull(props) ==
    [k \in 1..Len(props) |->
        IF IsDefined(props[k]) THEN props[k] ELSE Prop(props[k].key, NullVal)]

RECURSIVE JsonClone(_, _)
RECURSIVE JsonCloneProps(_, _, _)
JsonClone(h, v) ==
    IF v.t # "ref" THEN [heap |-> h, val |-> v]
    ELSE LET obj == h[v.a]
             kept == IF obj.array THEN UndefinedToNull(obj.props)
                     ELSE SelectSeq(obj.props, IsDefined)
             r == JsonCloneProps(h, kept, <<>>)
         IN  [heap |-> Append(r.heap, [array |-> obj.array, props |-> r.props]),
              val |-> Ref(Len(r.heap) + 1)]

JsonCloneProps(h, props, acc) ==
    IF props = <<>> THEN [heap |-> h, props |-> acc]
    ELSE LET c == JsonClone(h, Head(props).val)
         IN  JsonCloneProps(c.heap, Tail(props),
                            Append(acc, Prop(Head(props).key, c.val)))

(***************************************************************************)
(* redactObject (Redactor.ts 158-193).  st is the state of the running     *)
(* call, with the heap in st.heap.                                         *)
(***************************************************************************)
\* a closure that resets the anonymization state for every leaf
redactLeafResetting(str, st) ==
    redactString(str, TRUE, [st EXCEPT !.trace = Append(@, LeafEntry(str))])

\* the redactString closure, Redactor.ts 168-171
redactLeaf(str, st) ==
    redactString(str, FALSE, [st EXCEPT !.trace = Append(@, LeafEntry(str))])

\* what a leaf call returned, as a value
Redacted(st) == [st |-> st, val |-> StringVal(st.text)]

RECURSIVE processValue(_, _)
RECURSIVE processProps(_, _, _)
\* Redactor.ts 173-188
processValue(st, value) ==
    IF st.threw THEN [st |-> st, val |-> UndefinedVal]
    ELSE IF value.t = "string"
    THEN Redacted(redactLeaf(value.s, st))
    ELSE IF value.t = "ref"
    THEN LET obj == st.heap[value.a]
             r == processProps(st, obj.props, <<>>)
             made == [array |-> obj.array, props |-> r.props]
         IN  [st |-> [r.st EXCEPT !.heap = Append(@, made)],
              val |-> Ref(Len(r.st.heap) + 1)]
    ELSE [st |-> st, val |-> value]

processProps(st, props, acc) ==
    IF props = <<>> \/ st.threw THEN [st |-> st, props |-> acc]
    ELSE LET r == processValue(st, Head(props).val)
         IN  processProps(r.st, Tail(props), Append(acc, Prop(Head(props).key, r.val)))

\* an object walker that redacts the strings of obj where they are,
\* without copying anything
RECURSIVE redactInPlace(_, _)
RECURSIVE redactPropsInPlace(_, _, _)
redactInPlace(st, value) ==
    IF st.threw THEN [st |-> st, val |-> UndefinedVal]
    ELSE IF value.t = "string"
    THEN Redacted(redactLeaf(value.s, st))
    ELSE IF value.t = "ref"
    THEN LET r == redactPropsInPlace(st, value.a, 1)
         IN  [st |-> r, val |-> value]
    ELSE [st |-> st, val |-> value]

redactPropsInPlace(st, a, k) ==
    IF k > Len(st.heap[a].props) \/ st.threw THEN st
    ELSE LET r == redactInPlace(st, st.heap[a].props[k].val)
         IN  redactPropsInPlace(
                 [r.st EXCEPT !.heap[a].props[k].val = r.val], a, k + 1)

redactObjectInPlace(obj, st) ==
    LET reset == [st EXCEPT
                     !.map = IF anonymize THEN EmptyMap ELSE @,
                     !.counters = IF anonymize THEN EmptyMap ELSE @,
                     !.trace = IF anonymize THEN Append(@, ClearEntry) ELSE @]
    IN  redactInPlace(reset, obj)

redactObject(obj, st) ==
    LET redacted == JsonClone(st.heap, obj)
        reset == [st EXCEPT
                     !.heap = redacted.heap,
                     !.map = IF anonymize THEN EmptyMap ELSE @,
                     !.counters = IF anonymize THEN EmptyMap ELSE @,
                     !.trace = IF anonymize THEN Append(@, ClearEntry) ELSE @]
    IN  processValue(reset, redacted.val)

(***************************************************************************)
(* The calls.  A call runs to completion in one step; what it returned     *)
(* stays in `call` until the caller drops it.                              *)
(***************************************************************************)
NoCall ==
    [op |-> "none", input |-> <<>>, output |-> <<>>, found |-> FALSE,
     events |-> <<>>, trace |-> <<>>, phoneHome |-> <<>>, threw |-> FALSE,
     before |-> <<>>, heap |-> <<>>, inputRef |-> 0, outputRef |-> 0,
     stale |-> FALSE, requests |-> <<>>]

\* a dispatch under way: the promise of fetch and the abort timer.  A slot
\* that holds neither is free.  The slots are those the instance was given
\* when it was made.
Free == [fetch |-> "none", timer |-> "none"]
Slots == DOMAIN dispatches
NoDispatches(n) == [s \in 1..n |-> Free]
FreeSlots(slots) == {s \in Slots : slots[s] = Free}
LowestFree(slots) == CHOOSE s \in FreeSlots(slots) : \A o \in FreeSlots(slots) : s <= o

\* Redactor.ts 315-316, 319: every request of a call starts a dispatch of its own
RECURSIVE Launch(_, _)
Launch(slots, requests) ==
    IF requests = <<>> THEN slots
    ELSE Launch([slots EXCEPT ![LowestFree(slots)] =
                    [fetch |-> Head(requests).fetch, timer |-> "armed"]],
                Tail(requests))

\* redact has ended in state st; call.stale: the instance held tokens of an
\* earlier call when this call began
RedactEnds(text, st) ==
    /\ Len(st.requests) <= Cardinality(FreeSlots(dispatches))
    /\ anonymizationMap' = st.map
    /\ anonymizationCounters' = st.counters
    /\ dispatches' = Launch(dispatches, st.requests)
    /\ call' = [NoCall EXCEPT
                   !.op = "redact", !.input = text,
                   !.output = IF st.threw THEN <<>> ELSE st.text,
                   !.events = st.events, !.trace = st.trace,
                   !.phoneHome = st.phoneHome, !.threw = st.threw,
                   !.stale = anonymizationMap # EmptyMap,
                   !.requests = st.requests]

Redact(text, fetchThrows) ==
    /\ call.op = "none"
    /\ RedactEnds(text, redact(text, [Entering EXCEPT !.fetchThrows = fetchThrows]))
    /\ UNCHANGED <<config, lastIndex, unhandledRejections>>

\* hasPII has ended with r
HasPIIEnds(text, r) ==
    /\ lastIndex' = r.lastIndex
    /\ call' = [NoCall EXCEPT
                   !.op = "hasPII", !.input = text, !.found = r.found,
                   !.threw = r.threw, !.stale = anonymizationMap # EmptyMap]

HasPII(text) ==
    /\ call.op = "none"
    /\ HasPIIEnds(text, hasPII(activeRules, text, lastIndex))
    /\ UNCHANGED <<config, anonymizationMap, anonymizationCounters, transport>>

\* redactObject has ended with r: its state and the value it returns
RedactObjectEnds(objects, r) ==
    /\ Len(r.st.requests) <= Cardinality(FreeSlots(dispatches))
    /\ anonymizationMap' = r.st.map
    /\ anonymizationCounters' = r.st.counters
    /\ dispatches' = Launch(dispatches, r.st.requests)
    /\ call' = [NoCall EXCEPT
                   !.op = "redactObject",
                   !.trace = r.st.trace, !.phoneHome = r.st.phoneHome,
                   !.threw = r.st.threw,
                   !.before = objects, !.heap = r.st.heap,
                   !.inputRef = 1,
                   !.outputRef = IF r.st.threw THEN 0 ELSE r.val.a,
                   !.stale = anonymizationMap # EmptyMap,
                   !.requests = r.st.requests]

\* redactObject on the object at address 1 of the caller's heap
RedactObject(objects) ==
    /\ call.op = "none"
    /\ RedactObjectEnds(objects, redactObject(Ref(1), [Entering EXCEPT !.heap = objects]))
    /\ UNCHANGED <<config, lastIndex, unhandledRejections>>

\* the caller is done with the returned value
Return ==
    /\ call.op # "none"
    /\ call' = NoCall
    /\ UNCHANGED <<config, anonymizationMap, anonymizationCounters, lastIndex, transport>>

(***************************************************************************)
(* The rest of _phoneHome (Redactor.ts 332-342) and the handler that       *)
(* _redactString attached to its promise (265-270), run by the event loop  *)
(* when fetch settles or the timer fires.  A promise is a record: whether  *)
(* it rejected, and with what error.                                       *)
(***************************************************************************)
Resolved == [rejected |-> FALSE, error |-> ""]
Rejected(error) == [rejected |-> TRUE, error |-> error]

\* a catch block that swallows the error whatever failSilent is
phoneHomeCatchSilent(error) == Resolved

\* Redactor.ts 337-341: the promise of _phoneHome after an error in the try block
phoneHomeCatch(error) ==
    IF failSilent = FALSE THEN Rejected(error) ELSE Resolved

\* Redactor.ts 265-270: the promise that .catch(handler) returned
dispatchCatch(promise) ==
    IF promise.rejected /\ failSilent = FALSE
    THEN Rejected("Dashboard hook failed")
    ELSE Resolved

\* nothing handles the promise that .catch returned
Settle(promise) ==
    unhandledRejections' =
        IF promise.rejected THEN unhandledRejections \cup {promise.error}
        ELSE unhandledRejections

\* the response arrived: Redactor.ts 332-336
FetchResolves(s, ok) ==
    /\ dispatches[s].fetch = "pending"
    /\ dispatches' = [dispatches EXCEPT ![s] = Free]
    /\ Settle(IF ok THEN Resolved
              ELSE dispatchCatch(phoneHomeCatch("Dashboard API returned 500")))
    /\ UNCHANGED <<config, anonymizationMap, anonymizationCounters, lastIndex, call>>

\* the request failed on the network; clearTimeout is not reached
FetchRejects(s) ==
    /\ dispatches[s].fetch = "pending"
    /\ dispatches' = [dispatches EXCEPT ![s].fetch = "settled"]
    /\ Settle(dispatchCatch(phoneHomeCatch("fetch failed")))
    /\ UNCHANGED <<config, anonymizationMap, anonymizationCounters, lastIndex, call>>

\* fetch threw when it was called: the promise of _phoneHome settles in
\* the turn after the call
FetchThrew(s) ==
    /\ dispatches[s].fetch = "threw"
    /\ dispatches' = [dispatches EXCEPT ![s].fetch = "settled"]
    /\ Settle(dispatchCatch(phoneHomeCatch("fetch is not a function")))
    /\ UNCHANGED <<config, anonymizationMap, anonymizationCounters, lastIndex, call>>

\* a timer that never fires
abortTimerOff(slot) == FALSE

\* Redactor.ts 316: the timer of a dispatch can fire once the promises that
\* are already settled have been handled
abortTimer(slot) == slot.timer = "armed" /\ slot.fetch # "threw"

\* one controller for all the dispatches of the instance: the abort of one
\* ends every request that is pending
TimerFiresSharedController(s) ==
    /\ abortTimer(dispatches[s])
    /\ dispatches' = [o \in Slots |->
                         IF o = s THEN Free
                         ELSE IF dispatches[o].fetch = "pending"
                         THEN [dispatches[o] EXCEPT !.fetch = "settled"]
                         ELSE dispatches[o]]
    /\ Settle(IF dispatches[s].fetch = "pending"
              THEN dispatchCatch(phoneHomeCatch("AbortError"))
              ELSE Resolved)
    /\ UNCHANGED <<config, anonymizationMap, anonymizationCounters, lastIndex, call>>

\* Redactor.ts 316: controller.abort() after hookTimeout ms; a fetch that is
\* still pending rejects with an AbortError
TimerFires(s) ==
    /\ abortTimer(dispatches[s])
    /\ dispatches' = [dispatches EXCEPT ![s] = Free]
    /\ Settle(IF dispatches[s].fetch = "pending"
              THEN dispatchCatch(phoneHomeCatch("AbortError"))
              ELSE Resolved)
    /\ UNCHANGED <<config, anonymizationMap, anonymizationCounters, lastIndex, call>>

(***************************************************************************)
(* The constructor (Redactor.ts 19-46)                                     *)
(***************************************************************************)
RECURSIVE RuleMaps(_, _)
\* the rules maps of at most n of the entries, no key twice
RuleMaps(entries, n) ==
    IF n = 0 THEN {<<>>}
    ELSE LET shorter == RuleMaps(entries, n - 1)
             unused(m) == {e \in entries : \A k \in 1..Len(m) : m[k].key # e.key}
         IN  shorter \cup UNION {{Append(m, e) : e \in unused(m)} : m \in shorter}

DefaultApiUrl == "https://api.redactpii.com/v1/events"
DefaultHookTimeout == 500

\* Redactor.ts 20-38: the dashboard options.  A string option left out is
\* Undefined; failSilent and hookTimeout are <<>> when left out, <<v>> when given.
\* n: the dispatches that can be under way at a time.
ConstructTransportWith(key, url, silent, timeout, n) ==
    LET hasApiKey == key # Null /\ key # Undefined /\ key # ""
    IN  /\ apiUrl = IF hasApiKey
                    THEN (IF url \in {Undefined, Null} THEN DefaultApiUrl ELSE url)
                    ELSE (IF url \in {Undefined, Null} THEN "" ELSE url)
        /\ apiKey = IF key \in {Undefined, Null} THEN Null ELSE key
        /\ failSilent = IF silent = <<>> THEN TRUE ELSE silent[1]
        /\ hookTimeout = IF timeout = <<>> THEN DefaultHookTimeout ELSE timeout[1]
        /\ dispatches = NoDispatches(n)
        /\ unhandledRejections = {}

ConstructTransport(key, url, silent, timeout) ==
    ConstructTransportWith(key, url, silent, timeout, MaxInFlight)

\* used: the lastIndex that the caller's earlier use has left on the
\* patterns of customRules
Construct(opts, replaceWith, anon, aggr, used) ==
    /\ options = opts
    /\ globalReplaceWith = replaceWith
    /\ anonymize = anon
    /\ aggressive = aggr
    /\ activeRules = buildRuleSet(aggr,
                                  IF opts.rulesGiven THEN opts.rules ELSE defaultRules,
                                  opts.customRules)
    /\ lastIndex = [k \in 1..Len(activeRules) |->
                        IF activeRules[k].name = "DIGITS" THEN used ELSE 0]
    /\ anonymizationMap = EmptyMap
    /\ anonymizationCounters = EmptyMap
    /\ call = NoCall

\* the options of the main specification: the defaults, and one built-in
\* category with the two custom patterns
MainOptions ==
    {[rulesGiven |-> FALSE, rules |-> <<>>, customRules |-> <<>>],
     [rulesGiven |-> TRUE, rules |-> <<[key |-> "EMAIL", enabled |-> JsTrue]>>,
      customRules |-> <<CustomWord, CustomSsn>>]}

\* the string leaves of the objects
LeafTexts == {<<>>} \cup WordTexts(1)

\* a property key that is an e-mail address
PiiKey == "bob@example.com"

\* the heaps handed to redactObject, the root at address 1
ObjectInputs ==
    \* { user1: s1, user2: s2 }
    {<<Object(<<Prop("user1", StringVal(s1)), Prop("user2", StringVal(s2))>>)>> :
        s1 \in LeafTexts, s2 \in LeafTexts}
    \cup
    \* { contact: s1, gone: undefined, nested: { items: [undefined, s2], n: 42 },
    \*   none: null }
    {<<Object(<<Prop("contact", StringVal(s1)), Prop("gone", UndefinedVal),
                Prop("nested", Ref(2)), Prop("none", NullVal)>>),
       Object(<<Prop("items", Ref(3)), Prop("n", NumberVal(42))>>),
       Array(<<UndefinedVal, StringVal(s2)>>)>> :
        s1 \in LeafTexts, s2 \in LeafTexts}
    \cup
    \* { 'bob@example.com': s1 }: a key that a detector would match
    {<<Object(<<Prop(PiiKey, StringVal(s1))>>)>> : s1 \in LeafTexts}

\* the api key goes with the plain configurations; the dashboard options
\* are the subject of SpecTransport
Init ==
    \E opts \in MainOptions,
       replaceWith \in {Undefined, GlobalReplacement},
       anon \in BOOLEAN, aggr \in BOOLEAN :
        \E key \in IF anon \/ replaceWith # Undefined
                    THEN {Null} ELSE {Null, "test-key"} :
            \E used \in IF opts.customRules = <<>> \/ anon THEN {0} ELSE {0, 1} :
                /\ Construct(opts, replaceWith, anon, aggr, used)
                /\ ConstructTransport(key, Undefined, <<>>, <<>>)

\* the rules maps of the specification of rule-set construction
RuleEntries ==
    {[key |-> "EMAIL", enabled |-> JsTrue], [key |-> "EMAIL", enabled |-> JsFalse],
     [key |-> "SSN", enabled |-> JsTrue], [key |-> "SSN", enabled |-> JsOne],
     [key |-> "CREDIT_CARD", enabled |-> JsTrue],
     [key |-> "FOO", enabled |-> JsTrue],
     [key |-> "constructor", enabled |-> JsTrue]}

RuleOptions ==
    {[rulesGiven |-> FALSE, rules |-> <<>>, customRules |-> <<>>]}
    \cup {[rulesGiven |-> TRUE, rules |-> m, customRules |-> c] :
             m \in RuleMaps(RuleEntries, MaxRuleKeys),
             c \in {<<>>, <<CustomWord>>}}

InitRules ==
    \E opts \in RuleOptions, aggr \in BOOLEAN :
        \E key \in IF opts.rulesGiven THEN {Null} ELSE {Null, "test-key"} :
            /\ Construct(opts, Undefined, FALSE, aggr, 0)
            /\ ConstructTransport(key, Undefined, <<>>, <<>>)

\* the dashboard options: no key, an empty key, a key; no endpoint, an empty
\* endpoint, an endpoint of the caller; failSilent and hookTimeout left out
\* or given
CustomApiUrl == "https://custom-api.example.com/events"
CustomHookTimeout == 100
DefaultOptions == [rulesGiven |-> FALSE, rules |-> <<>>, customRules |-> <<>>]

InitTransport ==
    \E key \in {Undefined, "", "test-key"},
       url \in {Undefined, "", CustomApiUrl},
       silent \in {<<>>, <<FALSE>>},
       timeout \in {<<>>, <<CustomHookTimeout>>} :
        /\ Construct(DefaultOptions, Undefined, FALSE, FALSE, 0)
        /\ ConstructTransport(key, url, silent, timeout)

\* an instance with a credential and the default endpoint, failSilent left
\* out or false, and room for several dispatches side by side
InitConcurrent ==
    \E silent \in {<<>>, <<FALSE>>} :
        /\ Construct(DefaultOptions, Undefined, FALSE, FALSE, 0)
        /\ ConstructTransportWith("test-key", Undefined, silent, <<>>, MaxConcurrent)

Next ==
    \/ \E text \in Texts, fetchThrows \in BOOLEAN : Redact(text, fetchThrows)
    \/ \E text \in Texts : HasPII(text)
    \/ \E objects \in ObjectInputs : RedactObject(objects)
    \/ Return
    \/ \E s \in Slots, ok \in BOOLEAN : FetchResolves(s, ok)
    \/ \E s \in Slots : FetchRejects(s)
    \/ \E s \in Slots : FetchThrew(s)
    \/ \E s \in Slots : TimerFires(s)

Spec == Init /\ [][Next]_vars
SpecRules == InitRules /\ [][Next]_vars
SpecTransport == InitTransport /\ [][Next]_vars
SpecConcurrent == InitConcurrent /\ [][Next]_vars

\* the event loop runs a timer that is due and the handlers of a promise
\* that has settled; whether an answer ever comes is up to the collector
Fairness ==
    \A s \in 1..MaxInFlight : WF_vars(TimerFires(s)) /\ WF_vars(FetchThrew(s))
SpecLive == InitTransport /\ [][Next]_vars /\ Fairness


(***************************************************************************)
(* Properties.  A session is one redact call or one redactObject call; its *)
(* trace lists the resets, the string leaves and the matches in the order  *)
(* in which the call made them.                                            *)
(***************************************************************************)
InSession == call.op \in {"redact", "redactObject"}
Matches == {i \in 1..Len(call.trace) : call.trace[i].kind = "match"}
Resets == {i \in 1..Len(call.trace) : call.trace[i].kind = "clear"}
Leaves == {i \in 1..Len(call.trace) : call.trace[i].kind = "leaf"}

\* the category and the lower-cased text of match i
Category(i) == call.trace[i].piiType
LowerText(i) == Join(LowerAll(call.trace[i].match))
SameValue(i, j) == Category(i) = Category(j) /\ LowerText(i) = LowerText(j)
Replacement(i) == call.trace[i].replacement

\* the number n of the token PREFIX_n that replaced match i
TokenNumber(i) ==
    CHOOSE n \in 1..MaxCounter : Replacement(i) = Token(getTokenPrefix(Category(i)), n)

\* where match i starts in the input: the leaf (0 in redact) and the lexeme
Position(i) == <<Cardinality({k \in Leaves : k < i}), call.trace[i].at>>
Earlier(p, q) == p[1] < q[1] \/ (p[1] = q[1] /\ p[2] < q[2])

\* the matches the engine made first / that stand first in the input,
\* among those of their value
FirstReplaced == {i \in Matches : \A j \in Matches : SameValue(i, j) => i <= j}
FirstInInput ==
    {i \in Matches : \A j \in Matches : SameValue(i, j) => ~Earlier(Position(j), Position(i))}

\* C1: with anonymization, two matches of one session get the same token
\* exactly when they have the same category and the same lower-cased text
C1_OneTokenPerValue ==
    (anonymize /\ InSession) =>
        \A i, j \in Matches : SameValue(i, j) <=> Replacement(i) = Replacement(j)

\* a session that matched one value in two spellings
C1_Witness ==
    /\ anonymize /\ InSession
    /\ \E i, j \in Matches : SameValue(i, j) /\ call.trace[i].match # call.trace[j].match
    /\ anonymizationMap # EmptyMap

\* C2: with anonymization, a redact call starts from an empty map and empty
\* counters whatever earlier calls saw: the first value of each category is
\* number 1, and the map and the counters after the call hold the values of
\* this call only
C2_RedactStartsFresh ==
    (anonymize /\ call.op = "redact") =>
        /\ Resets = {1}
        /\ \A i \in Matches :
              (\A j \in Matches : Category(j) = Category(i) => i <= j)
                  => TokenNumber(i) = 1
        /\ Cardinality(DOMAIN anonymizationMap)
              = Cardinality({<<Category(i), LowerText(i)>> : i \in Matches})
        /\ \A c \in DOMAIN anonymizationCounters :
              anonymizationCounters[c]
                  = Cardinality({LowerText(i) : i \in {m \in Matches : Category(m) = c}})

\* a redact call that matched something, on an instance that held tokens of
\* an earlier call
C2_Witness ==
    /\ anonymize /\ call.op = "redact" /\ call.stale
    /\ Matches # {}

\* C3: with anonymization, redactObject resets the state once, before the
\* first leaf, and never between leaves; equal values of different leaves
\* get the same token
C3_ObjectResetsOnce ==
    (anonymize /\ call.op = "redactObject") =>
        /\ Resets = {1}
        /\ \A i, j \in Matches : SameValue(i, j) => Replacement(i) = Replacement(j)

\* a redactObject call, on an instance that held tokens, which matched one
\* value in two leaves
C3_Witness ==
    /\ anonymize /\ call.op = "redactObject" /\ call.stale
    /\ \E i, j \in Matches, k \in Leaves : i < k /\ k < j /\ SameValue(i, j)

\* the numbers of each category are 1..n, n the number of its values
NumberedWithoutGaps ==
    \A c \in {Category(i) : i \in Matches} :
        {TokenNumber(i) : i \in {m \in Matches : Category(m) = c}}
            = 1..Cardinality({LowerText(i) : i \in {m \in Matches : Category(m) = c}})

\* the values of category c are numbered in the order of their first
\* places in the input
NumberedInInputOrder(c) ==
    \A i, j \in {m \in FirstInInput : Category(m) = c} :
        Earlier(Position(i), Position(j)) => TokenNumber(i) < TokenNumber(j)

\* the values of category c are numbered in the order in which the engine
\* replaced them first
NumberedInReplacementOrder(c) ==
    \A i, j \in {m \in FirstReplaced : Category(m) = c} :
        i < j => TokenNumber(i) < TokenNumber(j)

\* the category has one detector in the active rule set
SingleDetector(c) ==
    Cardinality({k \in 1..Len(activeRules) : activeRules[k].name = c}) <= 1

\* C4, as stated: with anonymization the values of a category are numbered
\* 1, 2, 3, ... without gaps in the order in which they first occur in the
\* input, for every active rule set
C4_InputOrder ==
    (anonymize /\ InSession) =>
        /\ NumberedWithoutGaps
        /\ \A c \in {Category(i) : i \in Matches} : NumberedInInputOrder(c)

\* C4, amended: with anonymization the values of a category are numbered
\* 1, 2, 3, ... without gaps in the order in which the engine first replaces
\* them (detector after detector, left to right within one detector's pass,
\* leaf after leaf); for a category with one detector that is the order in
\* which they first occur in the input
C4_ReplacementOrder ==
    (anonymize /\ InSession) =>
        /\ NumberedWithoutGaps
        /\ \A c \in {Category(i) : i \in Matches} :
              /\ NumberedInReplacementOrder(c)
              /\ SingleDetector(c) => NumberedInInputOrder(c)

\* a session in which a later custom pattern matched a value that stands in
\* the input before the value an earlier custom pattern matched
C4_Witness ==
    /\ anonymize /\ InSession
    /\ \E i, j \in Matches :
          /\ Category(i) = Category(j) /\ i < j
          /\ Earlier(Position(j), Position(i))
          /\ TokenNumber(i) = 1 /\ TokenNumber(j) = 2

\* C5: the replacement of a match is the anonymization token when anonymize
\* is set, else globalReplaceWith when it is configured, else the fixed label
\* of the detector
C5_ReplacementPrecedence ==
    InSession =>
        \A i \in Matches :
            IF anonymize
            THEN \E n \in 1..MaxCounter :
                    Replacement(i) = Token(getTokenPrefix(Category(i)), n)
            ELSE IF globalReplaceWith # Undefined
            THEN Replacement(i) = globalReplaceWith
            ELSE Replacement(i) =
                    CASE Category(i) = "CREDIT_CARD" -> "CREDIT_CARD_NUMBER"
                      [] Category(i) = "EMAIL" -> "EMAIL_ADDRESS"
                      [] Category(i) = "PERSON_NAME" -> "PERSON_NAME"
                      [] Category(i) = "PHONE_NUMBER" -> "PHONE_NUMBER"
                      [] Category(i) = "US_SOCIAL_SECURITY_NUMBER"
                            -> "US_SOCIAL_SECURITY_NUMBER"
                      [] Category(i) = "DIGITS" -> "DIGITS"

\* a match made with both anonymize and globalReplaceWith set
C5_Witness ==
    /\ InSession /\ anonymize /\ globalReplaceWith # Undefined
    /\ Matches # {}

\* no detector of the active rule set matches the text
NoDetectorMatches(text) ==
    \A k \in 1..Len(activeRules) :
        activeRules[k].pattern = Undefined \/ ~Test(activeRules[k].pattern, text)

\* C6: when no detector of the active rule set matches the text, redact
\* returns the text, records no event and dispatches nothing
C6_NoMatchIsIdentity ==
    (call.op = "redact" /\ NoDetectorMatches(call.input)) =>
        /\ ~call.threw
        /\ call.output = call.input
        /\ call.events = <<>>
        /\ call.phoneHome = <<>>

\* the flag of a built-in key in the supplied rules map is exactly true
FlagIsTrue(key) ==
    \E k \in 1..Len(options.rules) :
        options.rules[k].key = key /\ options.rules[k].enabled = JsTrue
Enabled(key) == ~options.rulesGiven \/ FlagIsTrue(key)
InActiveSet(key) ==
    \E k \in 1..Len(activeRules) : activeRules[k] = rulePatterns(aggressive, key)

\* C7: a built-in category is in the active rule set exactly when no rules
\* map was supplied or its flag is exactly true; a category that is not is
\* never replaced, and hasPII returns false for a text that only its pattern
\* would match
C7_EnabledIffTrue ==
    \A key \in BuiltinKeySet :
        /\ InActiveSet(key) <=> Enabled(key)
        /\ ~Enabled(key) =>
              /\ \A i \in Matches : Category(i) # rulePatterns(aggressive, key).name
              /\ (/\ call.op = "hasPII"
                  /\ Test(rulePatterns(aggressive, key).pattern, call.input)
                  /\ NoDetectorMatches(call.input))
                    => (~call.threw /\ ~call.found)

\* the place of a built-in detector in the canonical order
CanonicalRank(name) ==
    CASE name = "CREDIT_CARD" -> 1
      [] name = "EMAIL" -> 2
      [] name = "PERSON_NAME" -> 3
      [] name = "PHONE_NUMBER" -> 4
      [] name = "US_SOCIAL_SECURITY_NUMBER" -> 5
      [] OTHER -> 0
BuiltinDetectors == {k \in 1..Len(activeRules) : CanonicalRank(activeRules[k].name) > 0}

\* C8: the active rule set lists the enabled built-in detectors in the order
\* CREDIT_CARD, EMAIL, NAME, PHONE, SSN whatever the order of the keys of the
\* rules map, and the custom patterns after them in their input order
C8_CanonicalOrder ==
    /\ \A i, j \in BuiltinDetectors :
          i < j => CanonicalRank(activeRules[i].name) < CanonicalRank(activeRules[j].name)
    /\ LET first == Len(activeRules) - Len(options.customRules)
       IN  /\ first >= 0
           /\ \A k \in 1..Len(options.customRules) :
                 activeRules[first + k] = [pattern |-> options.customRules[k],
                                           name |-> "DIGITS"]

\* the entries of the rules map under the five built-in keys
KnownEntries(rules) == SelectSeq(rules, LAMBDA e : e.key \in BuiltinKeySet)

\* C9: a key of the rules map that is not a built-in key changes nothing: the
\* active rule set is the one built without it, and no call ends in an error
C9_UnknownKeysIgnored ==
    /\ options.rulesGiven =>
          activeRules = buildRuleSet(aggressive, KnownEntries(options.rules),
                                     options.customRules)
    /\ ~call.threw

RECURSIVE Reachable(_, _)
\* the addresses of the objects and arrays reachable from value v
Reachable(h, v) ==
    IF v.t # "ref" THEN {}
    ELSE {v.a} \cup UNION {Reachable(h, h[v.a].props[k].val) :
                              k \in 1..Len(h[v.a].props)}

RECURSIVE DeepEqual(_, _, _, _)
\* value v of heap h and value w of heap g have the same structure
DeepEqual(h, v, g, w) ==
    IF v.t # "ref" \/ w.t # "ref" THEN v = w
    ELSE LET x == h[v.a]
             y == g[w.a]
         IN  /\ x.array = y.array
             /\ Len(x.props) = Len(y.props)
             /\ \A k \in 1..Len(x.props) :
                   /\ x.props[k].key = y.props[k].key
                   /\ DeepEqual(h, x.props[k].val, g, y.props[k].val)

\* C10: redactObject leaves its input as it was, and what it returns shares
\* no object or array with the input
C10_InputUntouched ==
    call.op = "redactObject" =>
        /\ DeepEqual(call.before, Ref(call.inputRef), call.heap, Ref(call.inputRef))
        /\ \A a \in Reachable(call.before, Ref(call.inputRef)) :
              call.heap[a] = call.before[a]
        /\ ~call.threw =>
              Reachable(call.heap, Ref(call.outputRef))
                  \cap Reachable(call.heap, Ref(call.inputRef)) = {}

\* a redactObject call that replaced a string of a nested array
C10_Witness ==
    /\ call.op = "redactObject" /\ ~call.threw
    /\ Matches # {}
    /\ \E a \in Reachable(call.heap, Ref(call.outputRef)) :
          /\ call.heap[a].array
          /\ \E k \in 1..Len(call.heap[a].props) :
                call.heap[a].props[k].val.t = "string"
                /\ call.heap[a].props[k].val.s # call.before[3].props[k].val.s

(***************************************************************************)
(* Properties of the audit transport.                                      *)
(***************************************************************************)
HasCredential == apiKey # Null /\ apiKey # ""
HasEndpoint == apiUrl # ""
RedactReturned == call.op = "redact" /\ ~call.threw

\* the call called fetch once, with the endpoint, the bearer credential and
\* all the events of the call
OneRequestWithAllEvents ==
    /\ Len(call.requests) = 1
    /\ call.requests[1].url = apiUrl
    /\ call.requests[1].method = "POST"
    /\ call.requests[1].authorization = "Bearer " \o apiKey
    /\ call.requests[1].body.events = call.events

\* C11, as the claim states it: a redact call makes exactly one request, with
\* all its events, if and only if a non-empty apiKey is configured and the
\* call recorded an event; otherwise it makes no request.
C11_RequestIffKeyAndEvents ==
    RedactReturned =>
        IF HasCredential /\ Len(call.events) > 0
        THEN OneRequestWithAllEvents
        ELSE call.requests = <<>>

\* C11, amended: a redact call makes exactly one request, with all its events,
\* if and only if a non-empty apiKey and a non-empty apiUrl are configured and
\* the call recorded an event; otherwise it makes no request.
C11_RequestIffKeyUrlAndEvents ==
    RedactReturned =>
        IF HasCredential /\ HasEndpoint /\ Len(call.events) > 0
        THEN OneRequestWithAllEvents
        ELSE call.requests = <<>>

\* a call with two events made one request that carries both
C11_Witness ==
    /\ RedactReturned
    /\ Len(call.events) = 2
    /\ OneRequestWithAllEvents
    /\ apiUrl = CustomApiUrl

\* the detection events of the session, in the order in which they were recorded
RECURSIVE SessionEvents(_)
SessionEvents(trace) ==
    IF trace = <<>> THEN <<>>
    ELSE IF Head(trace).kind = "match"
    THEN <<RedactionEvent(Head(trace).piiType)>> \o SessionEvents(Tail(trace))
    ELSE SessionEvents(Tail(trace))

\* C12: with a credential (and an endpoint) configured, every session, a
\* redact call or a redactObject call, that recorded at least one detection
\* event makes exactly one POST, which carries the events of the session.
C12_OnePostPerSession ==
    (InSession /\ ~call.threw /\ HasCredential /\ HasEndpoint /\ Matches # {}) =>
        /\ Len(call.requests) = 1
        /\ call.requests[1].method = "POST"
        /\ call.requests[1].body.events = SessionEvents(call.trace)

\* what the rules make of a text, with no transport anywhere
PlainRedaction(text) ==
    ApplyRules(activeRules,
               [Entering EXCEPT !.text = text,
                                !.origin = [k \in 1..Len(text) |-> k],
                                !.map = IF anonymize THEN EmptyMap ELSE @,
                                !.counters = IF anonymize THEN EmptyMap ELSE @])

ReturnsPlainRedaction(plain) ==
    /\ call.threw = plain.threw
    /\ ~call.threw => call.output = plain.text

\* C13: what redact returns is what the rules make of its input, whether
\* or not a request is made and whether fetch works or throws; redact does
\* not throw because of the transport; and nothing that happens to the
\* dispatch afterwards (response, error status, network error, abort),
\* under either failSilent, touches the returned value.
C13_ReturnIndependentOfTransport ==
    /\ [](call.op = "redact" => ReturnsPlainRedaction(PlainRedaction(call.input)))
    /\ [][(call.op = "redact" /\ call' # call) => call' = NoCall]_vars

\* redact returned its text although fetch threw when it was called; with
\* failSilent false the failure has since surfaced as an unhandled rejection
C13_Witness ==
    /\ RedactReturned
    /\ call.output # call.input
    /\ Len(call.requests) = 1
    /\ call.requests[1].fetch = "threw"
    /\ failSilent = FALSE
    /\ \A s \in Slots : dispatches[s].fetch \notin {"pending", "threw"}
    /\ unhandledRejections # {}

Fetches == {i \in 1..Len(call.trace) : call.trace[i].kind = "fetch"}
UnderWay(slot) == slot.fetch \in {"pending", "threw"}
Started(s) == ~UnderWay(dispatches[s]) /\ UnderWay(dispatches'[s])

DispatchFails ==
    \E s \in Slots :
        \/ FetchResolves(s, FALSE)
        \/ FetchRejects(s)
        \/ FetchThrew(s)
        \/ (dispatches[s].fetch = "pending" /\ TimerFires(s))

\* C15: with failSilent true a failed dispatch leaves nothing to observe: no
\* rejection, and no exception from redact.  With failSilent false every
\* failed dispatch ends in a rejection that nothing handles, with the error
\* 'Dashboard hook failed'; it arises in a turn of its own, in which no call
\* of the instance runs or returns, and redact itself does not throw.
C15_FailureSurfacesOnlyDetached ==
    /\ [](failSilent = TRUE => unhandledRejections = {})
    /\ [](call.op = "redact" => ~call.threw)
    /\ [][DispatchFails =>
              unhandledRejections' =
                  IF failSilent = FALSE THEN {"Dashboard hook failed"} ELSE {}]_vars
    /\ [][unhandledRejections' # unhandledRejections =>
              DispatchFails /\ call' = call]_vars

\* failSilent is false, redact has returned its text, and the request it
\* made has since failed: the rejection is there, the returned text as well
C15_Witness ==
    /\ failSilent = FALSE
    /\ RedactReturned
    /\ Len(call.requests) = 1
    /\ call.requests[1].fetch = "pending"
    /\ \A s \in Slots : ~UnderWay(dispatches[s])
    /\ unhandledRejections = {"Dashboard hook failed"}

\* C16: every request is made with a timer of hookTimeout ms; as long as a
\* dispatch is under way its timer is armed; and every dispatch that is under
\* way comes to an end (a response, a failure or the abort by its timer),
\* also when no answer ever comes.
C16_EveryDispatchTerminates ==
    /\ [](\A k \in 1..Len(call.requests) : call.requests[k].timeout = hookTimeout)
    /\ [](\A s \in Slots : UnderWay(dispatches[s]) => dispatches[s].timer = "armed")
    /\ \A s \in 1..MaxInFlight : UnderWay(dispatches[s]) ~> ~UnderWay(dispatches[s])

\* a request made with the timeout the caller chose is pending, its timer armed
C16_Witness ==
    /\ RedactReturned
    /\ hookTimeout = CustomHookTimeout
    /\ Len(call.requests) = 1
    /\ call.requests[1].timeout = CustomHookTimeout
    /\ \E s \in Slots : dispatches[s] = [fetch |-> "pending", timer |-> "armed"]

\* the names of the detectors of the active rule set
CategoryNames == {activeRules[k].name : k \in 1..Len(activeRules)}

\* a payload with the three fields and nothing else, every event a detector
\* name and the action REDACTED
PayloadShape(body) ==
    /\ DOMAIN body = {"sdk_version", "sdk_language", "events"}
    /\ body.sdk_version = "1.0.0"
    /\ body.sdk_language = "node"
    /\ \A k \in 1..Len(body.events) :
           /\ DOMAIN body.events[k] = {"pii_type", "action"}
           /\ body.events[k].pii_type \in CategoryNames
           /\ body.events[k].action = "REDACTED"

SomeDetectorMatches(text) ==
    \E k \in 1..Len(activeRules) :
        /\ activeRules[k].pattern # Undefined
        /\ Test(activeRules[k].pattern, text)

\* a hasPII step leaves the instance and its dispatches as they were
HasPIIChangesNothing ==
    [][(call.op = "none" /\ call'.op = "hasPII") =>
          UNCHANGED <<config, anonymizationMap, anonymizationCounters, lastIndex,
                      transport>>]_vars

\* C18: hasPII returns, and returns true exactly when some detector of the
\* active rule set matches the text it was given; it records no event and
\* makes no request.
C18_HasPIIProbesOnly ==
    call.op = "hasPII" =>
        /\ ~call.threw
        /\ call.found <=> SomeDetectorMatches(call.input)
        /\ call.events = <<>>
        /\ call.phoneHome = <<>>
        /\ call.requests = <<>>

RedactsAsFresh(plain) == ~call.threw /\ call.output = plain.text

\* C19: with anonymization disabled no call leaves a scan position behind:
\* the lastIndex of every stored pattern stays what it was at construction,
\* and every hasPII and redact result is what the rule set makes of the text
\* of that call when every pattern is scanned from its start, whatever calls
\* came before and whatever lastIndex the caller left on a custom pattern.
C19_NoScanStateSurvives ==
    /\ [](~anonymize /\ call.op = "hasPII" =>
              ~call.threw /\ (call.found <=> SomeDetectorMatches(call.input)))
    /\ [](~anonymize /\ call.op = "redact" =>
              RedactsAsFresh(PlainRedaction(call.input)))
    /\ [][lastIndex' = lastIndex]_vars

\* the caller had used its pattern /\band\b/g before: its lastIndex is
\* behind the only match of the text, and hasPII finds the match all the same
C19_Witness ==
    /\ ~anonymize
    /\ call.op = "hasPII"
    /\ call.input = <<"and">>
    /\ call.found
    /\ \E k \in 1..Len(activeRules) :
           activeRules[k].pattern = CustomWord /\ lastIndex[k] = 1

(***************************************************************************)
(* The example of the README.                                              *)
(***************************************************************************)
DefaultConfiguration ==
    /\ ~options.rulesGiven /\ options.customRules = <<>>
    /\ ~anonymize /\ ~aggressive /\ globalReplaceWith = Undefined

\* C20: with the default configuration
\* redact('Hi David Johnson, call 555-555-5555') returns
\* 'Hi PERSON_NAME, call PHONE_NUMBER': the greeting stays.
C20_ReadmeExample ==
    (DefaultConfiguration /\ call.op = "redact" /\ call.input = ReadmeText) =>
        /\ ~call.threw
        /\ Join(call.output) = "Hi PERSON_NAME, call PHONE_NUMBER"

(***************************************************************************)
(* Properties of redactObject.                                             *)
(***************************************************************************)
RECURSIVE SameShape(_, _, _, _)
\* value w of heap g has the shape of value v of heap h: the same keys in
\* every object, the same indices in every array, a string where v has a
\* string (what the rules make of it, when no token depends on the leaves
\* before it), and the scalar of v where v has another scalar
SameShape(h, v, g, w) ==
    IF v.t = "ref"
    THEN /\ w.t = "ref"
         /\ g[w.a].array = h[v.a].array
         /\ Len(g[w.a].props) = Len(h[v.a].props)
         /\ \A k \in 1..Len(h[v.a].props) :
               /\ k <= Len(g[w.a].props)
               /\ g[w.a].props[k].key = h[v.a].props[k].key
               /\ SameShape(h, h[v.a].props[k].val, g, g[w.a].props[k].val)
    ELSE IF v.t = "string"
    THEN /\ w.t = "string"
         /\ ~anonymize => w.s = PlainRedaction(v.s).text
    ELSE w = v

\* C21: what redactObject returns has the shape of its input: the same keys
\* in every object, the same length and indices in every array, every string
\* leaf redacted, every other scalar (number, null, undefined) as it was.
C21_SameShapeAsInput ==
    (call.op = "redactObject" /\ ~call.threw) =>
        SameShape(call.before, Ref(call.inputRef), call.heap, Ref(call.outputRef))

(***************************************************************************)
(* Properties of the engine.                                               *)
(***************************************************************************)
\* the match entries of a trace, in order
MatchEntries(trace) == SelectSeq(trace, LAMBDA e : e.kind = "match")

RECURSIVE ReplayPass(_, _, _, _, _)
\* one detector over the text src from lexeme i on, left to right: every
\* span it matches must be the next substitution of the list, made for this
\* detector's category; out is the text with the replacements put in
ReplayPass(rule, src, i, out, entries) ==
    IF i > Len(src) THEN [ok |-> TRUE, text |-> out, rest |-> entries]
    ELSE IF MatchLength(rule.pattern, src, i) = 0
    THEN ReplayPass(rule, src, i + 1, Append(out, src[i]), entries)
    ELSE IF \/ entries = <<>>
            \/ Head(entries).piiType # rule.name
            \/ Head(entries).match
                  # SubSeq(src, i, i + MatchLength(rule.pattern, src, i) - 1)
    THEN [ok |-> FALSE, text |-> out, rest |-> entries]
    ELSE ReplayPass(rule, src, i + MatchLength(rule.pattern, src, i),
                    Append(out, Head(entries).replacement), Tail(entries))

RECURSIVE Replay(_, _, _)
RECURSIVE Replayed(_, _)
\* the detectors in their order, each over the text the one before left
Replay(rules, text, entries) ==
    IF rules = <<>> THEN [ok |-> TRUE, text |-> text, rest |-> entries]
    ELSE Replayed(Tail(rules), ReplayPass(Head(rules), text, 1, <<>>, entries))

Replayed(rules, pass) ==
    IF pass.ok THEN Replay(rules, pass.text, pass.rest) ELSE pass

\* the list of substitutions is the one that the detectors make in their
\* order, none left over, and gives the text
Explains(replay, output) ==
    replay.ok /\ replay.rest = <<>> /\ replay.text = output

\* C22: the substitutions of a redact call are those of the detectors of the
\* active rule set taken one after another, each scanning the text that the
\* detectors before it left, from left to right; so they are ordered by
\* detector position first and by match position second; and the event list
\* holds one event per substitution, in that order.
C22_DetectorsInSequence ==
    (call.op = "redact" /\ ~call.threw) =>
        /\ Explains(Replay(activeRules, call.input, MatchEntries(call.trace)),
                    call.output)
        /\ call.events = SessionEvents(call.trace)
        /\ Len(call.events) = Cardinality(Matches)

\* a call with events of two categories, in which a later detector replaced
\* a value that stands in front of the value an earlier detector replaced
C22_Witness ==
    /\ call.op = "redact" /\ ~call.threw
    /\ Len(call.events) >= 2
    /\ \E i, j \in Matches :
          i < j /\ Category(i) # Category(j) /\ call.trace[j].at < call.trace[i].at
    /\ call.events[1] # call.events[Len(call.events)]

\* the token prefix of every category, as the claim lists them
categoryPrefix(c) ==
    CASE c = "CREDIT_CARD" -> "CREDIT_CARD"
      [] c = "EMAIL" -> "EMAIL"
      [] c = "PERSON_NAME" -> "PERSON"
      [] c = "PHONE_NUMBER" -> "PHONE"
      [] c = "US_SOCIAL_SECURITY_NUMBER" -> "SSN"
      [] OTHER -> "PII"

\* the values of category c that the session replaced
ValuesOf(c) == {LowerText(i) : i \in {m \in Matches : Category(m) = c}}

\* C23: with anonymization every replacement is <prefix>_<n>, n >= 1, the
\* prefix that of the category (PERSON for NAME, PHONE for PHONE, SSN for
\* SSN, PII for every custom pattern, the category name otherwise); a value
\* that the session has replaced before gets the token it got then, and the
\* counter of the category counts its values, not its matches.
C23_TokenPrefixAndReuse ==
    (anonymize /\ InSession) =>
        /\ \A i \in Matches :
              \E n \in 1..Cardinality(ValuesOf(Category(i))) :
                  Replacement(i) = Token(categoryPrefix(Category(i)), n)
        /\ \A i, j \in Matches : SameValue(i, j) => Replacement(i) = Replacement(j)
        /\ DOMAIN anonymizationCounters = {Category(i) : i \in Matches}
        /\ \A c \in DOMAIN anonymizationCounters :
              anonymizationCounters[c] = Cardinality(ValuesOf(c))

\* a custom pattern matched one value twice: both times PII_1, the counter at 1
C23_Witness ==
    /\ anonymize /\ InSession
    /\ \E i, j \in Matches :
          /\ i < j /\ SameValue(i, j) /\ Category(i) = "DIGITS"
          /\ Replacement(i) = "PII_1" /\ Replacement(j) = "PII_1"
    /\ anonymizationCounters["DIGITS"] = 1

\* a redactObject step
RedactObjectStep == call.op = "none" /\ call'.op = "redactObject"

\* C24: redactObject clears the anonymization state before its first leaf
\* at most and never at a leaf or after one, and it hands no events to
\* _phoneHome and calls fetch for no leaf, however many leaves matched: a
\* redactObject step leaves the dispatches as they are.
C24_LeavesNeitherResetNorDispatch ==
    /\ [](call.op = "redactObject" =>
              /\ \A i \in Resets : \A k \in Leaves : i < k
              /\ Cardinality(Resets) <= 1
              /\ Fetches = {}
              /\ call.phoneHome = <<>>
              /\ call.requests = <<>>)
    /\ [][RedactObjectStep => UNCHANGED transport]_vars

\* a redactObject call on an instance with a credential and an endpoint
\* replaced values in two leaves and made no request
C24_Witness ==
    /\ call.op = "redactObject" /\ ~call.threw
    /\ HasCredential /\ HasEndpoint
    /\ \E i, j \in Matches, k \in Leaves : i < k /\ k < j
    /\ call.requests = <<>>
    /\ \A s \in Slots : dispatches[s] = Free

(***************************************************************************)
(* The probe and the engine.                                               *)
(***************************************************************************)
\* the engine records an event for the text
EngineDetects(plain) == Len(plain.events) > 0
\* the probe returns true for the text
ProbeDetects(r) == r.found /\ ~r.threw
\* detector k matches the input of the call, and the call replaced nothing
\* for its category
MatchesRawOnly(k) ==
    /\ activeRules[k].pattern # Undefined
    /\ Test(activeRules[k].pattern, call.input)
    /\ \A i \in Matches : Category(i) # activeRules[k].name

\* C25: hasPII returns true for a text exactly when redact records at least
\* one detection event for it: what every hasPII call returned is what the
\* engine makes of its text, and what every redact call recorded is what
\* the probe says of its text.
C25_ProbeAgreesWithEngine ==
    /\ call.op = "hasPII" =>
          (call.found <=> EngineDetects(PlainRedaction(call.input)))
    /\ call.op = "redact" =>
          (Len(call.events) > 0
              <=> ProbeDetects(hasPII(activeRules, call.input, lastIndex)))

\* a redact call recorded events, and a later detector that matches the raw
\* text found nothing to replace in what the earlier detectors had left
C25_Witness ==
    /\ call.op = "redact" /\ ~call.threw
    /\ Len(call.events) > 0
    /\ \E k \in 1..Len(activeRules) : MatchesRawOnly(k)

(***************************************************************************)
(* The anonymization state between calls.                                  *)
(***************************************************************************)
\* the tokens the map holds
StoredTokens == {anonymizationMap[k] : k \in DOMAIN anonymizationMap}
\* the tokens with the prefix of category c
TokensOf(c) == {Token(categoryPrefix(c), n) : n \in 1..MaxCounter}
\* the keys of the values of category c that the session replaced
KeysOf(c) ==
    {anonymizationKey(c, call.trace[i].match) :
        i \in {m \in Matches : Category(m) = c}}

\* per category: the counter is the number of tokens stored for it, and
\* these are <prefix>_1 .. <prefix>_counter; every stored token belongs to a
\* category that has a counter
CountersMatchMap ==
    /\ \A c \in DOMAIN anonymizationCounters :
          /\ anonymizationCounters[c] >= 1
          /\ StoredTokens \cap TokensOf(c) =
                {Token(categoryPrefix(c), n) : n \in 1..anonymizationCounters[c]}
    /\ StoredTokens \subseteq UNION {TokensOf(c) : c \in DOMAIN anonymizationCounters}

Injective(m) == \A k1, k2 \in DOMAIN m : m[k1] = m[k2] => k1 = k2

\* after a session the entries are those of its values, the entries of a
\* category as many as its counter says
EntriesOfSession ==
    /\ DOMAIN anonymizationMap = UNION {KeysOf(c) : c \in PiiTypes}
    /\ DOMAIN anonymizationCounters = {Category(i) : i \in Matches}
    /\ \A c \in DOMAIN anonymizationCounters :
          /\ anonymizationCounters[c] = Cardinality(KeysOf(c))
          /\ {anonymizationMap[k] : k \in KeysOf(c)} = StoredTokens \cap TokensOf(c)

\* C26: in every state the counter of a category is the number of entries
\* of that category, the tokens stored for it are <prefix>_1 ..
\* <prefix>_counter, and no two keys hold the same token; only redact and
\* redactObject change the map and the counters; with anonymize false both
\* stay empty.
C26_CountersAndMapAgree ==
    /\ [](CountersMatchMap /\ Injective(anonymizationMap))
    /\ []((anonymize /\ InSession) => EntriesOfSession)
    /\ [](~anonymize => anonymizationMap = EmptyMap /\ anonymizationCounters = EmptyMap)
    /\ [][call'.op \notin {"redact", "redactObject"} =>
              UNCHANGED <<anonymizationMap, anonymizationCounters>>]_vars

\* between two calls the instance holds two tokens of one category
C26_Witness ==
    /\ anonymize /\ call.op = "none"
    /\ \E c \in DOMAIN anonymizationCounters : anonymizationCounters[c] = 2
    /\ Cardinality(DOMAIN anonymizationMap) = 2

(***************************************************************************)
(* Labels and the detectors that run after them.                           *)
(***************************************************************************)
\* only detectors of the two built-in tables are active, and no
\* globalReplaceWith is set
BuiltinOnly ==
    /\ options.customRules = <<>>
    /\ \A k \in 1..Len(activeRules) : CanonicalRank(activeRules[k].name) > 0
    /\ globalReplaceWith = Undefined

\* what the detectors put into a text
Inserted == Labels \cup Tokens
\* the places of a text that hold a label or a token
InsertedIn(text) == {k \in 1..Len(text) : text[k] \in Inserted}

\* C27: with built-in detectors only, no detector matches a span that holds
\* a label or token which an earlier detector has put in, so every label or
\* token is in the text that redact returns: as many as there were matches.
C27_LabelsStayIntact ==
    (BuiltinOnly /\ call.op = "redact" /\ ~call.threw) =>
        /\ \A i \in Matches : InsertedIn(call.trace[i].match) = {}
        /\ Cardinality(InsertedIn(call.output)) = Cardinality(Matches)

(***************************************************************************)
(* The timer of a dispatch.                                                *)
(***************************************************************************)
\* C28: once a dispatch has settled (a response with or without success, or
\* a failure of the request before the timeout) its timer is not pending
\* any more, so no abort fires for it later.
C28_SettledDispatchHasNoTimer ==
    \A s \in Slots : ~UnderWay(dispatches[s]) => dispatches[s].timer = "none"

(***************************************************************************)
(* Property keys.                                                          *)
(***************************************************************************)
RECURSIVE StringLeaves(_, _)
RECURSIVE StringLeavesOf(_, _)
\* the strings of value v in the order of the walk
StringLeaves(h, v) ==
    IF v.t = "string" THEN <<v.s>>
    ELSE IF v.t = "ref" THEN StringLeavesOf(h, h[v.a].props)
    ELSE <<>>
StringLeavesOf(h, props) ==
    IF props = <<>> THEN <<>>
    ELSE StringLeaves(h, Head(props).val) \o StringLeavesOf(h, Tail(props))

RECURSIVE SameKeys(_, _, _, _)
\* every object of w has the keys of the object of v in its place
SameKeys(h, v, g, w) ==
    IF v.t # "ref" THEN TRUE
    ELSE /\ w.t = "ref"
         /\ [k \in 1..Len(g[w.a].props) |-> g[w.a].props[k].key]
               = [k \in 1..Len(h[v.a].props) |-> h[v.a].props[k].key]
         /\ \A k \in 1..Len(h[v.a].props) :
               k <= Len(g[w.a].props)
                   => SameKeys(h, h[v.a].props[k].val, g, g[w.a].props[k].val)

\* the texts that the call handed to the engine, in order
EngineInputs ==
    [k \in 1..Len(SelectSeq(call.trace, LAMBDA e : e.kind = "leaf")) |->
        SelectSeq(call.trace, LAMBDA e : e.kind = "leaf")[k].match]

\* C29: every object of the result of redactObject has the keys of the input
\* object in its place, also a key that a detector matches; the engine is
\* handed the string values only, so no key makes an event or a token.
C29_KeysAreNotRedacted ==
    (call.op = "redactObject" /\ ~call.threw) =>
        /\ SameKeys(call.before, Ref(call.inputRef), call.heap, Ref(call.outputRef))
        /\ EngineInputs = StringLeaves(call.before, Ref(call.inputRef))

(***************************************************************************)
(* Dispatches side by side.                                                *)
(***************************************************************************)
\* a redact step
RedactStep == call.op = "none" /\ call'.op = "redact"
\* the dispatches that a step changes
Touched == {s \in Slots : dispatches'[s] # dispatches[s]}

\* C30: the request of a redact call carries the events of that call, in
\* the order in which the call recorded them, whatever else is under way; a
\* redact call made while dispatches are under way starts its own and leaves
\* the others as they are; and a response, a failure, a timeout or an abort
\* changes the one dispatch it belongs to and no other.
C30_DispatchesIndependent ==
    /\ [](call.op = "redact" =>
              /\ call.events = SessionEvents(call.trace)
              /\ \A k \in 1..Len(call.requests) :
                    call.requests[k].body.events = call.events)
    /\ [][RedactStep =>
              /\ \A s \in Touched : Started(s)
              /\ Cardinality(Touched) = Len(call'.requests)]_vars
    /\ [][Cardinality(Touched) <= 1]_vars

\* the request of an earlier call has failed and is waiting for its timer,
\* the request of a later call is still pending
C30_Witness ==
    /\ RedactReturned
    /\ Len(call.requests) = 1
    /\ \E a, b \in Slots :
          /\ a # b
          /\ dispatches[a].fetch = "settled" /\ dispatches[a].timer = "armed"
          /\ dispatches[b].fetch = "pending" /\ dispatches[b].timer = "armed"

=============================================================================
